---- MODULE Spec2Model ----
(***************************************************************************)
(* Model of src/main.py: the gallery builder (build_targets), the frame    *)
(* matcher (frame_processor) and the stream driver (main).                 *)
(*                                                                         *)
(* Similarities and thresholds are integers in tenths (0.3 is 3).          *)
(* Strings that the code slices or compares (file names, identity names)   *)
(* are sequences of one-character strings.                                 *)
(* The detector, the recognizer and compute_similarity live outside        *)
(* main.py; they are modelled by their outcome: an image is the list of    *)
(* landmark sets the detector finds in it, a landmark set carries the      *)
(* embedding the recognizer extracts from it (or the fact that the         *)
(* recognizer raises on it), and the embedding of a face in a frame is the *)
(* table of its similarities to the reference embeddings.                  *)
(***************************************************************************)
EXTENDS Integers, Sequences, FiniteSets, TLC

VARIABLES
    pc,                 \* position of main: start, open, read, process, waitkey, release, done, raised
    similarity_thresh,  \* the similarity threshold frame_processor compares with
    fs,                 \* the file system: directory path -> os.listdir order of its images
    targets,            \* main's gallery (line 170)
    colors,             \* main's name -> color map (line 171)
    log,                \* images warned about by logging.warning (line 99), in order
    build_calls,        \* number of calls of build_targets so far
    cap_open,           \* the capture is opened and not released
    out_open,           \* the writer is opened and not released
    ret,                \* result flag of the last cap.read()
    frame,              \* the frame last read: the landmark sets the detector finds in it
    frames_read,        \* frames delivered by cap.read()
    fp_targets,         \* frame_processor's gallery (line 132), last call
    fp_colors,          \* frame_processor's name -> color map (line 133), last call
    annotations,        \* what is drawn on the frame last written and shown, one record per face
    written,            \* frames handed to out.write and cv2.imshow
    key                 \* result of the last cv2.waitKey(1)

vars == <<pc, similarity_thresh, fs, targets, colors, log, build_calls, cap_open,
          out_open, ret, frame, frames_read, fp_targets, fp_colors, annotations,
          written, key>>

(***************************************************************************)
(* Bounds                                                                  *)
(***************************************************************************)
MaxFiles == 2       \* images in a faces directory
MaxFaces == 2       \* faces the detector returns for one frame of main's stream
MaxMatchFaces == 1  \* faces of the frame in the specification of frame_processor
MaxFrames == 2      \* frames the capture delivers before end-of-stream

(***************************************************************************)
(* Input universes                                                         *)
(***************************************************************************)
Unknown == <<"U", "n", "k", "n", "o", "w", "n">>

\* (255, 0, 0), line 155
UnknownColor == <<255, 0, 0>>

\* two of the triples random.randint(0, 256) can produce
Colors == {<<0, 0, 0>>, <<256, 128, 0>>}

MainFacesDir == "faces"

FpFacesDir == "face_reid/faces"

AJpg == <<"a", ".", "j", "p", "g">>

APng == <<"a", ".", "p", "n", "g">>

AJpeg == <<"a", ".", "j", "p", "e", "g">>

BJpg == <<"b", ".", "j", "p", "g">>

FileNames == {AJpg, APng, AJpeg, BJpg}

RefEmbs == {"E1", "E2"}

Sims == {-1, 0, 3, 4}

\* values of the configured threshold; 3 is frame_processor's 0.3
Thresholds == {-1, 0, 3}

DefaultThresh == 3

\* ord("q")
QKey == 113

\* results of cv2.waitKey(1): no key, "a", "q", "q" with a modifier bit above the low byte
Keys == {-1, 97, 113, 369}

\* a landmark set the recognizer embeds as e / raises on
Good(e) == [ok |-> TRUE, emb |-> e]

BadRef == [ok |-> FALSE, emb |-> "E1"]

BadFace == [ok |-> FALSE, emb |-> [e \in RefEmbs |-> 0]]

\* landmark sets of reference images
RefKps == {Good(e) : e \in RefEmbs} \cup {BadRef}

\* landmark sets of the faces of a frame
FaceKps == {Good(f) : f \in [RefEmbs -> Sims]}

SeqsUpTo(S, n) == UNION {[1..k -> S] : k \in 0..n}

\* os.listdir: no file name twice
ListingsOf(files) ==
    {l \in SeqsUpTo(files, MaxFiles) :
        \A i, j \in 1..Len(l) : i # j => l[i].filename # l[j].filename}

\* detector.detect(image, max_num=1): at most one landmark set
Files == [filename : FileNames, kpss : SeqsUpTo(RefKps, 1)]

\* directories of the specification of build_targets
Listings == ListingsOf(Files)

\* directories and frames of the specification of frame_processor: every
\* reference image and every face is one the recognizer embeds
FrameFiles == [filename : {AJpg, APng, BJpg}, kpss : {<<Good(e)>> : e \in RefEmbs}]

FrameListings == ListingsOf(FrameFiles)

Frames == SeqsUpTo(FaceKps, MaxMatchFaces)

File(fname, kpss) == [filename |-> fname, kpss |-> kpss]

\* directories and frames of the specification of main
MainListings ==
    { <<File(AJpg, <<Good("E1")>>)>>,
      <<File(BJpg, <<>>), File(AJpg, <<Good("E2")>>)>>,
      <<File(AJpg, <<BadRef>>)>> }

MainFaces == { Good([e \in RefEmbs |-> 4]), BadFace }

MainFrames == SeqsUpTo(MainFaces, MaxFaces)

(***************************************************************************)
(* External collaborators                                                  *)
(***************************************************************************)
RecognizerFails(kps) == ~kps.ok

recognizer(kps) == kps.emb

compute_similarity(target, embedding) == embedding[target]

(***************************************************************************)
(* build_targets                                                           *)
(***************************************************************************)
\* filename[:-4]
NameOf(filename) ==
    IF Len(filename) > 4 THEN SubSeq(filename, 1, Len(filename) - 4) ELSE <<>>

\* the index the loop goes on with after a skipped image (continue), mutated: break
BreakIndex(i, n) == n + 1

ContinueIndex(i, n) == i + 1

\* targets.append((embedding, name)), mutated: a same-named entry is overridden
AppendOverride(tgts, entry) ==
    IF \E k \in 1..Len(tgts) : tgts[k][2] = entry[2]
    THEN [k \in 1..Len(tgts) |-> IF tgts[k][2] = entry[2] THEN entry ELSE tgts[k]]
    ELSE Append(tgts, entry)

AppendTarget(tgts, entry) == Append(tgts, entry)

RECURSIVE BuildLoop(_, _, _, _)
BuildLoop(listing, i, tgts, warned) ==
    IF i > Len(listing)
    THEN [raised |-> FALSE, targets |-> tgts, log |-> warned]
    ELSE LET filename == listing[i].filename
             name == NameOf(filename)
             kpss == listing[i].kpss
         IN  IF Len(kpss) = 0
             THEN BuildLoop(listing, ContinueIndex(i, Len(listing)), tgts,
                            Append(warned, filename))
             ELSE IF RecognizerFails(kpss[1])
                  THEN [raised |-> TRUE, targets |-> tgts, log |-> warned]
                  ELSE BuildLoop(listing, i + 1,
                                 AppendTarget(tgts, <<recognizer(kpss[1]), name>>),
                                 warned)

build_targets(listing) == BuildLoop(listing, 1, <<>>, <<>>)

\* the possible results of the dict comprehension of lines 133 and 171
ColorMaps(tgts) == [{tgts[k][2] : k \in 1..Len(tgts)} -> Colors]

(***************************************************************************)
(* frame_processor                                                         *)
(***************************************************************************)
\* line 147, mutated: a later entry of equal similarity replaces the best
BetterOrEqual(similarity, max_similarity, thresh) ==
    similarity >= max_similarity /\ similarity > thresh

Better(similarity, max_similarity, thresh) ==
    similarity > max_similarity /\ similarity > thresh

RECURSIVE ScanLoop(_, _, _, _, _, _)
ScanLoop(tgts, k, embedding, thresh, max_similarity, best_match_name) ==
    IF k > Len(tgts)
    THEN [name |-> best_match_name, similarity |-> max_similarity]
    ELSE LET similarity == compute_similarity(tgts[k][1], embedding)
         IN  IF Better(similarity, max_similarity, thresh)
             THEN ScanLoop(tgts, k + 1, embedding, thresh, similarity, tgts[k][2])
             ELSE ScanLoop(tgts, k + 1, embedding, thresh, max_similarity,
                           best_match_name)

Match(tgts, embedding, thresh) == ScanLoop(tgts, 1, embedding, thresh, 0, Unknown)

\* lines 151-155
Annotate(m, cols) ==
    IF m.name # Unknown
    THEN [name |-> m.name, similarity |-> m.similarity, color |-> cols[m.name]]
    ELSE [name |-> Unknown, similarity |-> m.similarity, color |-> UnknownColor]

RECURSIVE FaceLoop(_, _, _, _, _, _)
FaceLoop(faces, i, tgts, cols, thresh, drawn) ==
    IF i > Len(faces)
    THEN [raised |-> FALSE, annotations |-> drawn]
    ELSE IF RecognizerFails(faces[i])
         THEN [raised |-> TRUE, annotations |-> drawn]
         ELSE FaceLoop(faces, i + 1, tgts, cols, thresh,
                       Append(drawn,
                              Annotate(Match(tgts, recognizer(faces[i]), thresh), cols)))

\* lines 121-157, for the color map cols that line 133 draws
frame_processor(faces, listing, thresh, cols) ==
    LET built == build_targets(listing)
    IN  IF built.raised
        THEN [raised |-> TRUE, built |-> FALSE, log |-> built.log,
              targets |-> <<>>, annotations |-> <<>>]
        ELSE LET r == FaceLoop(faces, 1, built.targets, cols, thresh, <<>>)
             IN  [raised |-> r.raised, built |-> TRUE, log |-> built.log,
                  targets |-> built.targets, annotations |-> r.annotations]

(***************************************************************************)
(* main                                                                    *)
(***************************************************************************)
\* lines 192-193, mutated: the stop key is ignored
NeverStop(k) == "read"

\* lines 192-193: cv2.waitKey(1) & 0xFF == ord("q")
AfterWaitKey(k) == IF (k % 256) = QKey THEN "release" ELSE "read"

\* lines 185-186
AfterRead(r) == IF r THEN "process" ELSE "release"

\* lines 161-171: the models, the gallery and the colors
Setup ==
    /\ pc = "start"
    /\ LET built == build_targets(fs[MainFacesDir])
       IN  /\ build_calls' = build_calls + 1
           /\ log' = log \o built.log
           /\ IF built.raised
              THEN /\ pc' = "raised"
                   /\ UNCHANGED <<targets, colors>>
              ELSE /\ pc' = "open"
                   /\ targets' = built.targets
                   /\ colors' \in ColorMaps(built.targets)
    /\ UNCHANGED <<similarity_thresh, fs, cap_open, out_open, ret, frame, frames_read,
                   fp_targets, fp_colors, annotations, written, key>>

\* lines 173-181: the capture and the writer
OpenCapture ==
    /\ pc = "open"
    /\ \E opened \in BOOLEAN :
          /\ cap_open' = opened
          /\ out_open' = opened
          /\ pc' = IF opened THEN "read" ELSE "raised"
    /\ UNCHANGED <<similarity_thresh, fs, targets, colors, log, build_calls, ret, frame,
                   frames_read, fp_targets, fp_colors, annotations, written, key>>

\* lines 184-186: ret, frame = cap.read()
Read ==
    /\ pc = "read"
    /\ \E r \in (IF frames_read < MaxFrames THEN BOOLEAN ELSE {FALSE}) :
          /\ ret' = r
          /\ pc' = AfterRead(r)
          /\ IF r
             THEN /\ frame' \in MainFrames
                  /\ frames_read' = frames_read + 1
             ELSE /\ frame' = <<>>
                  /\ frames_read' = frames_read
    /\ UNCHANGED <<similarity_thresh, fs, targets, colors, log, build_calls, cap_open,
                   out_open, fp_targets, fp_colors, annotations, written, key>>

\* lines 188-190: frame_processor(frame), out.write, cv2.imshow
Process ==
    /\ pc = "process"
    /\ \E cols \in ColorMaps(build_targets(fs[FpFacesDir]).targets) :
          LET r == frame_processor(frame, fs[FpFacesDir], similarity_thresh, cols)
          IN  /\ build_calls' = build_calls + 1
              /\ log' = log \o r.log
              /\ annotations' = IF r.raised THEN annotations ELSE r.annotations
              /\ pc' = IF r.raised THEN "raised" ELSE "waitkey"
              /\ written' = IF r.raised THEN written ELSE written + 1
              /\ IF r.built
                 THEN fp_targets' = r.targets /\ fp_colors' = cols
                 ELSE UNCHANGED <<fp_targets, fp_colors>>
    /\ UNCHANGED <<similarity_thresh, fs, targets, colors, cap_open, out_open, ret, frame,
                   frames_read, key>>

\* lines 192-193
WaitKey ==
    /\ pc = "waitkey"
    /\ \E k \in Keys :
          /\ key' = k
          /\ pc' = AfterWaitKey(k)
    /\ UNCHANGED <<similarity_thresh, fs, targets, colors, log, build_calls, cap_open,
                   out_open, ret, frame, frames_read, fp_targets, fp_colors, annotations,
                   written>>

\* lines 195-197
Release ==
    /\ pc = "release"
    /\ cap_open' = FALSE
    /\ out_open' = FALSE
    /\ pc' = "done"
    /\ UNCHANGED <<similarity_thresh, fs, targets, colors, log, build_calls, ret, frame,
                   frames_read, fp_targets, fp_colors, annotations, written, key>>

\* the values of the variables no code has assigned yet
Fresh ==
    /\ targets = <<>>
    /\ colors = <<>>
    /\ log = <<>>
    /\ build_calls = 0
    /\ cap_open = FALSE
    /\ out_open = FALSE
    /\ ret = FALSE
    /\ frames_read = 0
    /\ fp_targets = <<>>
    /\ fp_colors = <<>>
    /\ annotations = <<>>
    /\ written = 0
    /\ key = -1

(***************************************************************************)
(* The program: main from its first line                                   *)
(***************************************************************************)
Init ==
    /\ pc = "start"
    /\ similarity_thresh = DefaultThresh
    /\ fs \in [{MainFacesDir, FpFacesDir} -> MainListings]
    /\ frame = <<>>
    /\ Fresh

Next == Setup \/ OpenCapture \/ Read \/ Process \/ WaitKey \/ Release

Spec == Init /\ [][Next]_vars

\* main is one thread that runs each statement it reaches
FairSpec == Spec /\ WF_vars(Next)

(***************************************************************************)
(* build_targets on every directory of the bounds                          *)
(***************************************************************************)
InitBuild ==
    /\ pc = "start"
    /\ similarity_thresh = DefaultThresh
    /\ \E l \in Listings : fs = [d \in {MainFacesDir, FpFacesDir} |->
                                     IF d = MainFacesDir THEN l ELSE <<>>]
    /\ frame = <<>>
    /\ Fresh

NextBuild == Setup

SpecBuild == InitBuild /\ [][NextBuild]_vars

(***************************************************************************)
(* frame_processor on every threshold, directory and frame of the bounds   *)
(***************************************************************************)
InitFrame ==
    /\ pc = "process"
    /\ similarity_thresh \in Thresholds
    /\ \E l \in FrameListings : fs = [d \in {MainFacesDir, FpFacesDir} |->
                                          IF d = FpFacesDir THEN l ELSE <<>>]
    /\ frame \in Frames
    /\ Fresh

NextFrame == Process

SpecFrame == InitFrame /\ [][NextFrame]_vars

(***************************************************************************)
(* Vocabulary of the properties                                            *)
(***************************************************************************)
\* frame_processor has returned the current frame
Processed == pc = "waitkey"

\* similarity of face i of the current frame to entry k of frame_processor's gallery
SimTo(i, k) == compute_similarity(fp_targets[k][1], recognizer(frame[i]))

\* the largest similarity of face i to an entry of a non-empty gallery
BestSim(i) ==
    CHOOSE s \in {SimTo(i, k) : k \in 1..Len(fp_targets)} :
        \A k \in 1..Len(fp_targets) : SimTo(i, k) <= s

\* the images of a directory in which the detector finds a face
FaceIdx(l) == {i \in 1..Len(l) : Len(l[i].kpss) > 0}

\* how many images up to image i have a face
Pos(l, i) == Cardinality({j \in FaceIdx(l) : j <= i})

\* the file name without its extension (os.path.splitext)
LastDot(f) == CHOOSE d \in 1..Len(f) : f[d] = "." /\ \A e \in (d + 1)..Len(f) : f[e] # "."

Stem(f) == SubSeq(f, 1, LastDot(f) - 1)

C3_TieBreakEarliest ==
    Processed =>
        \A i \in 1..Len(frame) :
            annotations[i].name # Unknown =>
                \E k \in 1..Len(fp_targets) :
                    /\ SimTo(i, k) = annotations[i].similarity
                    /\ \A j \in 1..(k - 1) : SimTo(i, j) < SimTo(i, k)
                    /\ \A j \in k..Len(fp_targets) : SimTo(i, j) <= SimTo(i, k)
                    /\ annotations[i].name = fp_targets[k][2]

\* a face was labeled while a later entry of another name had the same similarity
C3_Witness ==
    /\ Processed
    /\ \E i \in 1..Len(frame) : \E k1, k2 \in 1..Len(fp_targets) :
          /\ k1 < k2
          /\ annotations[i].name = fp_targets[k1][2]
          /\ fp_targets[k2][2] # fp_targets[k1][2]
          /\ SimTo(i, k1) = annotations[i].similarity
          /\ SimTo(i, k2) = annotations[i].similarity

\* C4: within one run a name keeps its color: a face labeled with a name is
\* drawn in the color that name was drawn in on the frame before.
C4_ColorStableAcrossFrames ==
    [][(pc = "process" /\ pc' = "waitkey") =>
          \A i \in 1..Len(annotations') : \A j \in 1..Len(annotations) :
              annotations'[i].name = annotations[j].name =>
                  annotations'[i].color = annotations[j].color]_vars

\* C5: build_targets runs once, before the first frame is read, and every frame
\* is matched against that startup gallery.
C5_GalleryBuiltOnce ==
    /\ frames_read > 0 => build_calls = 1
    /\ Processed => fp_targets = targets

\* C6: when build_targets returns, the gallery holds, in directory order, the
\* embedding of the first landmark set of each image with a face and nothing
\* else, and each image without a face was warned about once.
C6_OneEntryPerDetectedFace ==
    pc = "open" =>
        LET l == fs[MainFacesDir]
        IN  /\ Len(targets) = Cardinality(FaceIdx(l))
            /\ \A i \in FaceIdx(l) : targets[Pos(l, i)][1] = recognizer(l[i].kpss[1])
            /\ Len(log) = Len(l) - Cardinality(FaceIdx(l))
            /\ \A i \in (1..Len(l)) \ FaceIdx(l) : log[i - Pos(l, i)] = l[i].filename

\* the build returned from a directory where an image with a face follows one without
C6_Witness ==
    /\ pc = "open"
    /\ \E i, j \in 1..Len(fs[MainFacesDir]) :
          /\ i < j
          /\ i \notin FaceIdx(fs[MainFacesDir])
          /\ j \in FaceIdx(fs[MainFacesDir])
    /\ Len(targets) = 1
    /\ Len(log) = 1

\* C7 as stated: names are unique in the gallery, and of two images of one name
\* only the later one's embedding is in it.
C7_UniqueNamesLaterOverrides ==
    Processed =>
        LET l == fs[FpFacesDir]
        IN  /\ \A k1, k2 \in 1..Len(fp_targets) :
                  k1 # k2 => fp_targets[k1][2] # fp_targets[k2][2]
            /\ \A a, b \in FaceIdx(l) :
                  (a < b /\ NameOf(l[a].filename) = NameOf(l[b].filename)) =>
                      \E k \in 1..Len(fp_targets) :
                          fp_targets[k] = <<recognizer(l[b].kpss[1]), NameOf(l[b].filename)>>

\* C7 amended: of two images of one name both entries are in the gallery, in
\* directory order, each with its own embedding, and a face whose accepted best
\* similarity is to the earlier embedding alone is labeled with the name at
\* that similarity.
C7_SameNameBothKept ==
    Processed =>
        LET l == fs[FpFacesDir]
        IN  \A a, b \in FaceIdx(l) :
                (a < b /\ NameOf(l[a].filename) = NameOf(l[b].filename)) =>
                    /\ Pos(l, b) <= Len(fp_targets)
                    /\ fp_targets[Pos(l, a)] =
                          <<recognizer(l[a].kpss[1]), NameOf(l[a].filename)>>
                    /\ fp_targets[Pos(l, b)] =
                          <<recognizer(l[b].kpss[1]), NameOf(l[b].filename)>>
                    /\ \A i \in 1..Len(frame) :
                          ( /\ SimTo(i, Pos(l, a)) > similarity_thresh
                            /\ SimTo(i, Pos(l, a)) > 0
                            /\ \A j \in 1..Len(fp_targets) :
                                  j # Pos(l, a) => SimTo(i, j) < SimTo(i, Pos(l, a)) )
                          => /\ annotations[i].name = NameOf(l[a].filename)
                             /\ annotations[i].similarity = SimTo(i, Pos(l, a))

\* a face was labeled through the earlier of two same-named entries
C7_Witness ==
    /\ Processed
    /\ \E k1, k2 \in 1..Len(fp_targets) : \E i \in 1..Len(frame) :
          /\ k1 < k2
          /\ fp_targets[k1][2] = fp_targets[k2][2]
          /\ fp_targets[k1][1] # fp_targets[k2][1]
          /\ SimTo(i, k2) < SimTo(i, k1)
          /\ annotations[i].name = fp_targets[k1][2]
          /\ annotations[i].similarity = SimTo(i, k1)

\* C8: when the recognizer raises on a face of a frame (the gallery having been
\* built), frame_processor still returns the frame, with every other face
\* annotated, and main goes on.
C8_FaceFailureIsSoft ==
    (frames_read > 0 /\ pc # "process" /\ ~build_targets(fs[FpFacesDir]).raised) =>
        /\ pc # "raised"
        /\ Processed =>
              Len(annotations) = Cardinality({i \in 1..Len(frame) : ~RecognizerFails(frame[i])})

\* C9: the name of every gallery entry is the stem of its image's file name,
\* and is not empty.
C9_NameIsFilenameStem ==
    pc = "open" =>
        LET l == fs[MainFacesDir]
        IN  \A i \in FaceIdx(l) :
                /\ Pos(l, i) <= Len(targets)
                /\ targets[Pos(l, i)][2] = Stem(l[i].filename)
                /\ targets[Pos(l, i)][2] # <<>>

\* C10: a frame is written before the next is read; the loop ends at once on
\* end-of-stream and on the stop key; once it has ended the capture and the
\* writer get released, and nothing is read or written afterwards.
C10_SequentialAndTerminates ==
    /\ [](pc = "read" => written = frames_read)
    /\ [][(pc = "read" /\ ~ret') => pc' = "release"]_vars
    /\ [][(pc = "waitkey" /\ (key' % 256) = QKey) => pc' = "release"]_vars
    /\ (pc = "release") ~> (pc = "done" /\ ~cap_open /\ ~out_open)
    /\ [][pc = "done" => (pc' = "done" /\ frames_read' = frames_read
                                      /\ written' = written)]_vars

\* the run was released after the stop key was seen on a frame
C10_Witness ==
    /\ pc = "done"
    /\ frames_read > 0
    /\ written = frames_read
    /\ (key % 256) = QKey
    /\ ~cap_open
    /\ ~out_open

====
